---- MODULE Spec2Model ----
(***************************************************************************)
(* Model of src/scraper.py: the fetch path (ScrapingSession.get with its   *)
(* Selenium fallback, wrapped by fetch), the JSON store written by         *)
(* save_json, the six scrape_* functions and the run_all flow that drives  *)
(* them in order.                                                          *)
(*                                                                         *)
(* Strings are modelled as numbers: a URL is a sequence of tokens where 0  *)
(* is the "/" separator and a positive number is one path segment; a slug  *)
(* is a positive number (their order is the string order used by sorted), *)
(* and 0 stands for a falsy slug (None or "").                             *)
(***************************************************************************)
EXTENDS Integers, Sequences, FiniteSets, TLC

\* ---------------------------------------------------------------- config
RETRIES == 5

\* max_pages of scrape_ongoing_pages (50 in the source), scaled down
MaxPages == 3
\* how many times the program is run against the same store
MaxRuns == 2
\* how many environment faults (a fetch call that sees a bad response, an
\* extraction that raises, a file write that fails) one behaviour may hold
MaxFaults == 1

SlugIds == 1..3
SegAnime == 8
SegEpisode == 9

\* ---------------------------------------------------------------- helpers
RECURSIVE Rstrip(_)
\* url.rstrip("/")
Rstrip(url) ==
    IF url # <<>> /\ url[Len(url)] = 0 THEN Rstrip(SubSeq(url, 1, Len(url) - 1))
    ELSE url

\* slug_from_url: None for a falsy url, else the last "/"-separated segment
\* of the url without its trailing slashes ("" when nothing is left)
slug_from_url(url) ==
    IF url = <<>> THEN 0
    ELSE LET r == Rstrip(url) IN IF r = <<>> THEN 0 ELSE r[Len(r)]

\* the item dict the list scrapers and the episode list build from one <a>
Item(href) == [link |-> href, slug |-> slug_from_url(href)]

RECURSIVE MapItems(_)
MapItems(hrefs) ==
    IF hrefs = <<>> THEN <<>>
    ELSE <<Item(Head(hrefs))>> \o MapItems(Tail(hrefs))

\* what the selectors of a scraper find in a fetched body: the entries of
\* the expected document, nothing in any other document
Extract(html, hrefs) == IF html = "page" THEN MapItems(hrefs) ELSE <<>>

RECURSIVE SlugSet(_)
\* the truthy slugs of a list of items
SlugSet(items) ==
    IF items = <<>> THEN {}
    ELSE (IF Head(items).slug # 0 THEN {Head(items).slug} ELSE {})
         \cup SlugSet(Tail(items))

RECURSIVE SortedSeq_Descending(_)
\* sorted(S, reverse=True)
SortedSeq_Descending(S) ==
    IF S = {} THEN <<>>
    ELSE LET m == CHOOSE x \in S : \A y \in S : x >= y
         IN <<m>> \o SortedSeq_Descending(S \ {m})

RECURSIVE SortedSeq(_)
\* sorted(S)
SortedSeq(S) ==
    IF S = {} THEN <<>>
    ELSE LET m == CHOOSE x \in S : \A y \in S : x <= y
         IN <<m>> \o SortedSeq(S \ {m})

RECURSIVE DedupeFrom_KeepsLast(_, _)
\* a dedupe loop that keeps, for each slug, the item seen last
DedupeFrom_KeepsLast(items, seen) ==
    IF items = <<>> THEN <<>>
    ELSE LET it == Head(items) IN
         IF it.slug = 0 THEN DedupeFrom_KeepsLast(Tail(items), seen)
         ELSE IF it.slug \in SlugSet(Tail(items))
         THEN DedupeFrom_KeepsLast(Tail(items), seen)
         ELSE <<it>> \o DedupeFrom_KeepsLast(Tail(items), seen)

RECURSIVE DedupeFrom(_, _)
\* the "dedupe by slug" loop of scrape_ongoing_pages
DedupeFrom(items, seen) ==
    IF items = <<>> THEN <<>>
    ELSE LET it == Head(items) IN
         IF it.slug = 0 THEN DedupeFrom(Tail(items), seen)
         ELSE IF it.slug \in seen THEN DedupeFrom(Tail(items), seen)
         ELSE <<it>> \o DedupeFrom(Tail(items), seen \cup {it.slug})

Dedupe(items) == DedupeFrom(items, {})

Range(s) == {s[k] : k \in 1..Len(s)}

\* ---------------------------------------------------------------- the site
AnimeHref(s) == <<SegAnime, 0, s, 0>>
AnimeHrefNoSlash(s) == <<SegAnime, 0, s>>
EpisodeHref(s) == <<SegEpisode, 0, s, 0>>
NoHref == <<>>
RootHref == <<0>>

\* the root page: an anime no ongoing page lists, an entry whose link gives
\* no slug, an anime the ongoing pages list too
HomeChoices == { <<AnimeHref(3), RootHref, AnimeHrefNoSlash(1)>> }

PageContent(p) ==
    IF p = 1 THEN <<AnimeHref(1), NoHref, AnimeHrefNoSlash(1)>>
    ELSE IF p = 2 THEN <<AnimeHref(2), AnimeHrefNoSlash(1)>>
    ELSE <<AnimeHrefNoSlash(2)>>

\* which ongoing pages list something: none, the first two, all that
\* max_pages allows, or all but page 1
PageLayouts == {{}, {1, 2}, 1..MaxPages, 2..MaxPages}

\* the episode list of each anime page: three episodes, the newest first;
\* one of them again with entries that give no slug; none
EpisodeChoices ==
    { [s \in SlugIds |->
          IF s = 1 THEN <<EpisodeHref(3), EpisodeHref(1), EpisodeHref(2)>>
          ELSE IF s = 2 THEN <<EpisodeHref(1), NoHref, RootHref>>
          ELSE <<>>] }

Sites ==
    { [home |-> h,
       pages |-> [p \in 1..MaxPages |-> IF p \in l THEN PageContent(p) ELSE <<>>],
       episodes |-> e] : h \in HomeChoices, l \in PageLayouts, e \in EpisodeChoices }

\* ---------------------------------------------------------------- the store
F(kind, id) == [kind |-> kind, id |-> id]

Files ==
    {F("home", 0), F("ongoing_all", 0), F("genre", 0), F("jadwal", 0)}
    \cup {F("ongoing", p) : p \in 1..MaxPages}
    \cup {F("anime", s) : s \in SlugIds}
    \cup {F("episode", s) : s \in SlugIds}

Absent == [state |-> "absent", data |-> <<>>]
Json(data) == [state |-> "json", data |-> data]
\* a file opened with "w" (truncated) whose json.dump did not finish
Partial == [state |-> "partial", data |-> <<>>]

\* open(path, "w") works, or raises (a name the file system refuses, a
\* directory that is gone, no permission)
WriteOutcomes == {"ok", "openfail"}

\* save_json: the file is rewritten with the data; an exception is logged
\* and swallowed, the file is then as it was
save_json(st, data, file, w) ==
    IF w = "ok" THEN [st EXCEPT ![file] = Json(data)] ELSE st

\* the number of times a file was written
CountWrite(wc, file, w) ==
    IF w = "ok" THEN [wc EXCEPT ![file] = @ + 1] ELSE wc

\* ---------------------------------------------------------------- the fetch path
Statuses == {200, 204, 403, 500, 503}
\* a response body: the expected document, a document holding one of the
\* challenge indicators, or some other document
Bodies == {"page", "challenge", "other"}
\* session.get raised (timeout, connection reset)
TransportError == [status |-> 0, body |-> "other"]
Responses == {TransportError} \cup [status : Statuses, body : Bodies]

Healthy(resp) == resp.status = 200 /\ resp.body = "page"

\* what driver.get / driver.page_source give
SelOutcomes == {"page", "junk", "raise"}

NewSession == [use_selenium |-> FALSE, driver |-> FALSE]

\* _init_selenium: uc.Chrome(...) works or raises
init_selenium(s, ok) ==
    IF ok THEN [use_selenium |-> TRUE, driver |-> TRUE]
    ELSE [s EXCEPT !.use_selenium = FALSE]

is_cloudflare_challenge(resp) ==
    resp.status \in {403, 503} /\ resp.body = "challenge"

\* a success status
Is2xx(resp) == resp.status \in 200..299

\* a transient error: session.get raised, or a 5xx that
\* _is_cloudflare_challenge does not take for a challenge
Transient(resp) ==
    \/ resp = TransportError
    \/ resp.status \in 500..599 /\ ~is_cloudflare_challenge(resp)

\* _get_with_selenium: out is the page source, or "exc" when it raises;
\* calls counts the invocations of _get_with_selenium
get_with_selenium(s, ok, sel) ==
    LET s1 == IF ~s.driver THEN init_selenium(s, ok) ELSE s IN
    IF s1.driver
    THEN [sess |-> s1, out |-> IF sel = "raise" THEN "exc" ELSE sel, calls |-> 1]
    ELSE [sess |-> s1, out |-> "exc", calls |-> 1]

\* "if not self.use_selenium: self._init_selenium()
\*  if self.use_selenium: return self._get_with_selenium(url)  else: raise"
try_selenium(s, ok, sel) ==
    LET s1 == IF ~s.use_selenium THEN init_selenium(s, ok) ELSE s IN
    IF s1.use_selenium THEN get_with_selenium(s1, ok, sel)
    ELSE [sess |-> s1, out |-> "exc", calls |-> 0]

\* the try block of one loop iteration of get: out is the text returned,
\* "exc" when an exception reaches the except clause, "fall" when the block
\* ends without returning
try_block(a, s, resp, ok, sel) ==
    IF resp = TransportError THEN [sess |-> s, out |-> "exc", calls |-> 0]
    ELSE IF is_cloudflare_challenge(resp) THEN try_selenium(s, ok, sel)
    ELSE IF resp.status = 200
         THEN [sess |-> s, out |-> IF resp.body = "page" THEN "page" ELSE "junk",
               calls |-> 0]
    ELSE IF resp.status = 403 /\ a = RETRIES - 1 THEN try_selenium(s, ok, sel)
    ELSE [sess |-> s, out |-> "fall", calls |-> 0]

\* one iteration of the loop of get (attempt a, counted from 0) with its except
\* clause and the trailing sleep: out is the text get returns, "raised" when
\* get raises, "next" when the loop goes on; slept tells whether the sleep
\* between attempts was the last thing done; tryOut and tryCalls tell how the
\* try block ended and whether it invoked the fallback
get_attempt(a, s, resp, ok1, sel1, ok2, sel2) ==
    LET t == try_block(a, s, resp, ok1, sel1) IN
    IF t.out \in {"page", "junk"}
    THEN [sess |-> t.sess, out |-> t.out, calls |-> t.calls, slept |-> FALSE,
          tryOut |-> t.out, tryCalls |-> t.calls]
    ELSE IF t.out = "exc" /\ a = RETRIES - 1
    THEN LET h == try_selenium(t.sess, ok2, sel2) IN
         [sess |-> h.sess, out |-> IF h.out = "exc" THEN "raised" ELSE h.out,
          calls |-> t.calls + h.calls, slept |-> FALSE,
          tryOut |-> t.out, tryCalls |-> t.calls]
    ELSE [sess |-> t.sess, out |-> IF a = RETRIES - 1 THEN "raised" ELSE "next",
          calls |-> t.calls, slept |-> TRUE,
          tryOut |-> t.out, tryCalls |-> t.calls]

\* fetch without its except clause
fetch_Propagates(out) == out

\* fetch: the text of get, None when get raised
fetch(out) == IF out = "raised" THEN "none" ELSE out

\* ---------------------------------------------------------------- state
VARIABLES
    site,           \* the pages the site serves (unchanged throughout)
    store,          \* outputs/: file -> content
    writes,         \* file -> number of times it was written
    run,            \* the number of the current run of the program
    store1,         \* the store as the previous run left it
    prevStatus,     \* how the previous run ended: none | all_done | fatal | interrupted
    faults,         \* environment faults so far
    pc,             \* the scraper run_all is in
    status,         \* running | all_done | fatal | interrupted
    fpc,            \* the current fetch call: idle | get | returned
    attempt,        \* loop variable of get
    sess,           \* scraper_session: use_selenium, driver
    html,           \* what fetch returned
    getOut,         \* how get ended: pending | page | junk | raised
    fbCalls,        \* invocations of _get_with_selenium in this call of get
    callBad,        \* this fetch call has seen a bad response
    delay,          \* the sleep done since the last request: none | backoff | ratelimit
    \* the history of the current call of get, recorded by get_traced:
    primReqs,       \* calls of session.get
    ok2xxAt,        \* the primary request that first answered 2xx (0: none)
    fbFailedAt,     \* the primary request whose challenge led to a fallback that raised (0: none)
    allTransient,   \* every primary request ended in a transient error
    page, all_items, ongoing,               \* scrape_ongoing_pages
    home_ret,       \* what scrape_home returned in this run
    home_items, slugs_list, i,              \* run_all, anime loop
    ep_queue, ep_queue_list, j,             \* run_all, episode loop
    log,            \* the work items fetched in this run, in order
    pageItems,      \* per ongoing page fetched: items extracted (-1: no body)
    adOk            \* slug -> the episodes of the record scrape_anime_detail returned

traceVars == <<primReqs, ok2xxAt, fbFailedAt, allTransient>>
fetchVars == <<fpc, attempt, sess, html, getOut, fbCalls, callBad, delay,
               primReqs, ok2xxAt, fbFailedAt, allTransient>>
listVars == <<page, all_items, ongoing, home_ret, home_items, slugs_list, i,
              ep_queue, ep_queue_list, j>>
vars == <<site, store, writes, run, store1, prevStatus, faults, pc, status,
          fpc, attempt, sess, html, getOut, fbCalls, callBad, delay,
          primReqs, ok2xxAt, fbFailedAt, allTransient,
          page, all_items, ongoing, home_ret, home_items, slugs_list, i,
          ep_queue, ep_queue_list, j, log, pageItems, adOk>>

\* a scraper calls soup_from_url(url) for a work item: a new call of fetch
CallFetch(item) ==
    /\ fpc' = "get"
    /\ attempt' = 0
    /\ html' = "none"
    /\ getOut' = "pending"
    /\ fbCalls' = 0
    /\ callBad' = FALSE
    /\ primReqs' = 0 /\ ok2xxAt' = 0 /\ fbFailedAt' = 0 /\ allTransient' = TRUE
    /\ log' = Append(log, item)
    /\ UNCHANGED <<sess, delay>>

NoFetch ==
    /\ fpc' = "idle"
    /\ UNCHANGED <<attempt, sess, html, getOut, fbCalls, callBad, delay,
                   primReqs, ok2xxAt, fbFailedAt, allTransient, log>>

Init ==
    /\ site \in Sites
    /\ store = [f \in Files |-> Absent]
    /\ writes = [f \in Files |-> 0]
    /\ run = 1
    /\ store1 = [f \in Files |-> Absent]
    /\ prevStatus = "none"
    /\ faults = 0
    /\ pc = "home"
    /\ status = "running"
    /\ fpc = "get" /\ attempt = 0 /\ sess = NewSession /\ html = "none"
    /\ getOut = "pending" /\ fbCalls = 0 /\ callBad = FALSE /\ delay = "none"
    /\ primReqs = 0 /\ ok2xxAt = 0 /\ fbFailedAt = 0 /\ allTransient = TRUE
    /\ page = 1 /\ all_items = <<>> /\ ongoing = <<>>
    /\ home_ret = <<>> /\ home_items = <<>> /\ slugs_list = <<>> /\ i = 0
    /\ ep_queue = {} /\ ep_queue_list = <<>> /\ j = 0
    /\ log = <<F("home", 0)>>
    /\ pageItems = <<>>
    /\ adOk = [s \in {} |-> <<>>]

\* ---------------------------------------------------------------- fetch(url)
\* what one loop iteration of get may do on a response, by the outcomes of
\* uc.Chrome and driver.get
Attempts(resp) ==
    { get_attempt(attempt, sess, resp, ok1, sel1, ok2, sel2) :
          ok1 \in BOOLEAN, sel1 \in SelOutcomes,
          ok2 \in BOOLEAN, sel2 \in SelOutcomes }

\* the effect of one loop iteration of get that ended as r on response resp
\* and, when get ends, of the rest of fetch: the rate-limit sleep after a
\* returned text, None after an exception
GetStep(resp, r) ==
    /\ sess' = r.sess
    /\ fbCalls' = fbCalls + r.calls
    /\ callBad' = (callBad \/ ~Healthy(resp))
    /\ faults' = IF ~Healthy(resp) /\ ~callBad THEN faults + 1 ELSE faults
    /\ IF r.out = "next"
       THEN /\ attempt' = attempt + 1
            /\ delay' = "backoff"
            /\ UNCHANGED <<fpc, html, getOut>>
       ELSE /\ fpc' = "returned"
            /\ getOut' = r.out
            /\ html' = fetch(r.out)
            /\ delay' = IF r.out # "raised" THEN "ratelimit"
                        ELSE IF r.slept THEN "backoff" ELSE "none"
            /\ UNCHANGED attempt

\* one iteration of the loop of ScrapingSession.get, and, when get ends,
\* the rest of fetch
get ==
    /\ status = "running"
    /\ fpc = "get"
    /\ \E resp \in Responses :
        /\ Healthy(resp) \/ callBad \/ faults < MaxFaults
        /\ \E r \in Attempts(resp) : GetStep(resp, r)
    /\ UNCHANGED traceVars
    /\ UNCHANGED <<site, store, writes, run, store1, prevStatus, pc, status, listVars,
                   log, pageItems, adOk>>

\* ---------------------------------------------------------------- run_all
\* the faults a scraper step takes from the environment: its extraction may
\* raise once a body is there, each of its file writes may fail
FaultsOk(raises, ws, saving) ==
    /\ raises => html \in {"page", "junk"}
    /\ \A k \in 1..Len(ws) : ws[k] # "ok" => (saving[k] /\ ~raises)
    /\ faults + (IF raises THEN 1 ELSE 0)
              + Cardinality({k \in 1..Len(ws) : ws[k] # "ok"}) <= MaxFaults

NewFaults(raises, ws) ==
    faults + (IF raises THEN 1 ELSE 0) + Cardinality({k \in 1..Len(ws) : ws[k] # "ok"})

\* an exception reaches a scraper's caller: fetch raised, or the extraction did
Raised(raises) == html = "raised" \/ raises

\* "except Exception as e: Fatal error in scraping process", then close()
Fatal ==
    /\ status' = "fatal"
    /\ UNCHANGED <<pc, store, writes, listVars, fetchVars, log, pageItems, adOk>>

\* the loops without their inner try
ItemRaiseStatus_Uncaught == "fatal"

\* an exception inside the try of the anime loop or of the episode loop is
\* logged and the loop goes on
ItemRaiseStatus == "running"

\* a loop that ends after its first item
MoreItems_FirstOnly(list, k) == k <= 1 /\ k <= Len(list)

\* "for slug in slugs_list" / "for ep_slug in ep_queue_list": is there a k-th item
MoreItems(list, k) == k <= Len(list)

\* an episode loop that neither goes on nor ends
EpisodeLoop_Hangs(elist, k) ==
    /\ pc' = "episode"
    /\ j' = j
    /\ NoFetch
    /\ status' = status

\* the episode loop from its k-th item on, then ">>> ALL DONE"
EpisodeLoop(elist, k) ==
    IF MoreItems(elist, k)
    THEN /\ pc' = "episode"
         /\ j' = k
         /\ CallFetch(F("episode", elist[k]))
         /\ status' = status
    ELSE /\ pc' = "end"
         /\ j' = j
         /\ NoFetch
         /\ status' = "all_done"

\* the anime loop from its k-th item on, then the sorted episode queue and
\* the episode loop
AnimeLoop(list, k, epq) ==
    /\ ep_queue' = epq
    /\ IF MoreItems(list, k)
       THEN /\ pc' = "anime"
            /\ i' = k
            /\ CallFetch(F("anime", list[k]))
            /\ UNCHANGED <<ep_queue_list, j, status>>
       ELSE /\ i' = i
            /\ ep_queue_list' = SortedSeq({s \in epq : s # 0})
            /\ EpisodeLoop(SortedSeq({s \in epq : s # 0}), 1)

scrape_home ==
    /\ status = "running" /\ pc = "home" /\ fpc = "returned"
    /\ \E raises \in BOOLEAN, w \in WriteOutcomes :
        /\ FaultsOk(raises, <<w>>, <<html \in {"page", "junk"}>>)
        /\ faults' = NewFaults(raises, <<w>>)
        /\ IF Raised(raises) THEN Fatal
           ELSE /\ IF html = "none" THEN UNCHANGED <<store, writes>>
                   ELSE /\ store' = save_json(store, Extract(html, site.home),
                                              F("home", 0), w)
                        /\ writes' = CountWrite(writes, F("home", 0), w)
                /\ pc' = "ongoing"
                /\ page' = 1
                /\ all_items' = <<>>
                /\ CallFetch(F("ongoing", 1))
                /\ home_ret' = Extract(html, site.home)
                /\ UNCHANGED <<status, ongoing, home_items, slugs_list, i,
                               ep_queue, ep_queue_list, j, pageItems, adOk>>
    /\ UNCHANGED <<site, run, store1, prevStatus>>

\* pagination that goes on after a page without items
StopPaging_IgnoresEmpty(items, p) == p + 1 > MaxPages

\* pagination that stops one page early
StopPaging_OffByOne(items, p) == items = <<>> \/ p + 1 >= MaxPages

\* does the pagination loop end after the page that gave these items
StopPaging(items, p) == items = <<>> \/ p + 1 > MaxPages

\* one iteration of the loop of scrape_ongoing_pages and, when the loop ends,
\* the dedupe and the save of ongoing_all_unique.json
scrape_ongoing_pages ==
    /\ status = "running" /\ pc = "ongoing" /\ fpc = "returned"
    /\ \E raises \in BOOLEAN, w \in WriteOutcomes, wu \in WriteOutcomes :
        LET items == Extract(html, site.pages[page])
            all == all_items \o items
            unique == Dedupe(all)
            stop == html = "none" \/ StopPaging(items, page)
        IN
        /\ FaultsOk(raises, <<w, wu>>, <<items # <<>>, stop>>)
        /\ faults' = NewFaults(raises, <<w, wu>>)
        /\ IF Raised(raises) THEN Fatal
           ELSE /\ pageItems' = Append(pageItems,
                                       IF html = "none" THEN -1 ELSE Len(items))
                /\ all_items' = all
                /\ IF stop
                   THEN /\ store' = save_json(
                               IF items # <<>>
                               THEN save_json(store, items, F("ongoing", page), w)
                               ELSE store,
                               unique, F("ongoing_all", 0), wu)
                        /\ writes' = CountWrite(
                               IF items # <<>>
                               THEN CountWrite(writes, F("ongoing", page), w)
                               ELSE writes,
                               F("ongoing_all", 0), wu)
                        /\ ongoing' = unique
                        /\ pc' = "genre"
                        /\ page' = IF items # <<>> THEN page + 1 ELSE page
                        /\ CallFetch(F("genre", 0))
                   ELSE /\ store' = save_json(store, items, F("ongoing", page), w)
                        /\ writes' = CountWrite(writes, F("ongoing", page), w)
                        /\ page' = page + 1
                        /\ CallFetch(F("ongoing", page + 1))
                        /\ UNCHANGED <<pc, ongoing>>
                /\ UNCHANGED <<status, home_ret, home_items, slugs_list, i,
                               ep_queue, ep_queue_list, j, adOk>>
    /\ UNCHANGED <<site, run, store1, prevStatus>>

\* a list scraper without its "if not soup: return": it saves what it has
ScrapeSingle_SavesAlways(file, nextpc) ==
    /\ \E w \in WriteOutcomes :
        /\ FaultsOk(FALSE, <<w>>, <<TRUE>>)
        /\ faults' = NewFaults(FALSE, <<w>>)
        /\ store' = save_json(store, <<>>, file, w)
        /\ writes' = CountWrite(writes, file, w)
        /\ pc' = nextpc
        /\ IF nextpc = "jadwal" THEN CallFetch(F("jadwal", 0)) ELSE NoFetch
        /\ UNCHANGED <<status, listVars, pageItems, adOk>>
    /\ UNCHANGED <<site, run, store1, prevStatus>>

\* scrape_genrelist and scrape_jadwal: one list page, one file
ScrapeSingle(file, nextpc) ==
    /\ \E raises \in BOOLEAN, w \in WriteOutcomes :
        /\ FaultsOk(raises, <<w>>, <<html \in {"page", "junk"}>>)
        /\ faults' = NewFaults(raises, <<w>>)
        /\ IF Raised(raises) THEN Fatal
           ELSE /\ IF html = "none" THEN UNCHANGED <<store, writes>>
                   ELSE /\ store' = save_json(store, <<>>, file, w)
                        /\ writes' = CountWrite(writes, file, w)
                /\ pc' = nextpc
                /\ IF nextpc = "jadwal" THEN CallFetch(F("jadwal", 0)) ELSE NoFetch
                /\ UNCHANGED <<status, listVars, pageItems, adOk>>
    /\ UNCHANGED <<site, run, store1, prevStatus>>

scrape_genrelist ==
    /\ status = "running" /\ pc = "genre" /\ fpc = "returned"
    /\ ScrapeSingle(F("genre", 0), "jadwal")

scrape_jadwal ==
    /\ status = "running" /\ pc = "jadwal" /\ fpc = "returned"
    /\ ScrapeSingle(F("jadwal", 0), "gather")

\* home.json read back: [] when the file is missing or does not parse
ReadHome(st) ==
    IF st[F("home", 0)].state = "json" THEN st[F("home", 0)].data ELSE <<>>

RECURSIVE SlugSeq(_)
SlugSeq(items) ==
    IF items = <<>> THEN <<>>
    ELSE (IF Head(items).slug # 0 THEN <<Head(items).slug>> ELSE <<>>)
         \o SlugSeq(Tail(items))

\* the slugs gathered in a list instead of a set
SlugsList_NoSet(ong, home) == SlugSeq(ong) \o SlugSeq(home)

\* "slugs = set() ... slugs_list = sorted(slugs)"
SlugsList(ong, home) == SortedSeq(SlugSet(ong) \cup SlugSet(home))

\* run_all between scrape_jadwal and the anime loop: gather the slugs
gather_slugs ==
    /\ status = "running" /\ pc = "gather"
    /\ home_items' = ReadHome(store)
    /\ slugs_list' = SlugsList(ongoing, ReadHome(store))
    /\ AnimeLoop(SlugsList(ongoing, ReadHome(store)), 1, {})
    /\ UNCHANGED <<site, run, store1, prevStatus, faults, store, writes, page, all_items,
                   ongoing, home_ret, pageItems, adOk>>

\* a queue that takes every episode id, listed by the record or not
EpQueueAdd_AllSlugs(epq, episodes) == epq \cup SlugIds

RECURSIVE EpQueueAdd(_, _)
\* "for ep in ad.get("episodes", [])": the slug, else the slug of the link
EpQueueAdd(epq, episodes) ==
    IF episodes = <<>> THEN epq
    ELSE LET ep == Head(episodes) IN
         EpQueueAdd(IF ep.slug # 0 THEN epq \cup {ep.slug}
                    ELSE IF ep.link # <<>> THEN epq \cup {slug_from_url(ep.link)}
                    ELSE epq,
                    Tail(episodes))

\* one iteration of the anime loop: scrape_anime_detail_by_slug(slug), then
\* its episodes join the queue
scrape_anime_detail_by_slug ==
    /\ status = "running" /\ pc = "anime" /\ fpc = "returned"
    /\ \E raises \in BOOLEAN, w \in WriteOutcomes :
        LET slug == slugs_list[i]
            episodes == Extract(html, site.episodes[slug])
        IN
        /\ FaultsOk(raises, <<w>>, <<html \in {"page", "junk"}>>)
        /\ faults' = NewFaults(raises, <<w>>)
        /\ IF Raised(raises) /\ ItemRaiseStatus = "fatal" THEN Fatal
           ELSE IF Raised(raises) \/ html = "none"
           THEN /\ AnimeLoop(slugs_list, i + 1, ep_queue)
                /\ UNCHANGED <<store, writes, adOk>>
           ELSE /\ store' = save_json(store, episodes, F("anime", slug), w)
                /\ writes' = CountWrite(writes, F("anime", slug), w)
                /\ adOk' = [s \in DOMAIN adOk \cup {slug} |->
                               IF s = slug THEN episodes ELSE adOk[s]]
                /\ AnimeLoop(slugs_list, i + 1, EpQueueAdd(ep_queue, episodes))
        /\ IF Raised(raises) /\ ItemRaiseStatus = "fatal" THEN TRUE
           ELSE UNCHANGED <<page, all_items, ongoing, home_ret, home_items, slugs_list,
                            pageItems>>
    /\ UNCHANGED <<site, run, store1, prevStatus>>

\* one iteration of the episode loop: scrape_episode_detail_by_slug(ep_slug)
scrape_episode_detail_by_slug ==
    /\ status = "running" /\ pc = "episode" /\ fpc = "returned"
    /\ \E raises \in BOOLEAN, w \in WriteOutcomes :
        LET slug == ep_queue_list[j] IN
        /\ FaultsOk(raises, <<w>>, <<html \in {"page", "junk"}>>)
        /\ faults' = NewFaults(raises, <<w>>)
        /\ IF Raised(raises) /\ ItemRaiseStatus = "fatal" THEN Fatal
           ELSE /\ IF Raised(raises) \/ html = "none"
                   THEN UNCHANGED <<store, writes>>
                   ELSE /\ store' = save_json(store, <<>>, F("episode", slug), w)
                        /\ writes' = CountWrite(writes, F("episode", slug), w)
                /\ EpisodeLoop(ep_queue_list, j + 1)
                /\ UNCHANGED <<page, all_items, ongoing, home_ret, home_items, slugs_list,
                               i, ep_queue, ep_queue_list, pageItems, adOk>>
    /\ UNCHANGED <<site, run, store1, prevStatus>>

\* the writes the scraper about to run on the fetched body does, in order
PendingWrites ==
    IF fpc # "returned" \/ html = "none" THEN <<>>
    ELSE IF pc = "home"
    THEN << [file |-> F("home", 0), data |-> Extract(html, site.home)] >>
    ELSE IF pc = "ongoing"
    THEN LET items == Extract(html, site.pages[page]) IN
         (IF items # <<>>
          THEN << [file |-> F("ongoing", page), data |-> items] >> ELSE <<>>)
         \o (IF StopPaging(items, page)
             THEN << [file |-> F("ongoing_all", 0),
                      data |-> Dedupe(all_items \o items)] >>
             ELSE <<>>)
    ELSE IF pc = "anime"
    THEN << [file |-> F("anime", slugs_list[i]),
             data |-> Extract(html, site.episodes[slugs_list[i]])] >>
    ELSE IF pc \in {"genre", "jadwal", "episode"}
    THEN << [file |-> log[Len(log)], data |-> <<>>] >>
    ELSE <<>>

\* the first k-1 of these writes done, the k-th cut short after open(path, "w")
InterruptedWrite(st, pw, k) ==
    LET first == IF k = 2 THEN save_json(st, pw[1].data, pw[1].file, "ok") ELSE st
    IN [first EXCEPT ![pw[k].file] = Partial]

\* KeyboardInterrupt (Ctrl-C, SIGINT): caught by run_all alone, which logs
\* "Scraping interrupted by user" and closes the session.  It arrives while
\* the program waits (request, sleep) or computes, or while save_json is
\* between open and the end of json.dump.  The process then ends: what it
\* held in memory is gone, the store stays.
interrupt ==
    /\ status = "running"
    /\ faults < MaxFaults
    /\ faults' = faults + 1
    /\ status' = "interrupted"
    /\ \/ UNCHANGED <<store, writes>>
       \/ \E k \in 1..Len(PendingWrites) :
             /\ store' = InterruptedWrite(store, PendingWrites, k)
             /\ writes' = [f \in Files |->
                              IF \E n \in 1..k : PendingWrites[n].file = f
                              THEN writes[f] + 1 ELSE writes[f]]
    /\ pc' = "end"
    /\ fpc' = "idle" /\ attempt' = 0 /\ sess' = NewSession /\ html' = "none"
    /\ getOut' = "pending" /\ fbCalls' = 0 /\ callBad' = FALSE /\ delay' = "none"
    /\ primReqs' = 0 /\ ok2xxAt' = 0 /\ fbFailedAt' = 0 /\ allTransient' = TRUE
    /\ page' = 1 /\ all_items' = <<>> /\ ongoing' = <<>>
    /\ home_ret' = <<>> /\ home_items' = <<>> /\ slugs_list' = <<>> /\ i' = 0
    /\ ep_queue' = {} /\ ep_queue_list' = <<>> /\ j' = 0
    /\ log' = <<>>
    /\ pageItems' = <<>>
    /\ adOk' = [s \in {} |-> <<>>]
    /\ UNCHANGED <<site, run, store1, prevStatus>>

\* the program is started again on the store the last run left
start_run ==
    /\ status \in {"all_done", "fatal", "interrupted"}
    /\ run < MaxRuns
    /\ run' = run + 1
    /\ store1' = store
    /\ prevStatus' = status
    /\ pc' = "home"
    /\ status' = "running"
    /\ fpc' = "get" /\ attempt' = 0 /\ sess' = NewSession /\ html' = "none"
    /\ getOut' = "pending" /\ fbCalls' = 0 /\ callBad' = FALSE /\ delay' = "none"
    /\ primReqs' = 0 /\ ok2xxAt' = 0 /\ fbFailedAt' = 0 /\ allTransient' = TRUE
    /\ page' = 1 /\ all_items' = <<>> /\ ongoing' = <<>>
    /\ home_ret' = <<>> /\ home_items' = <<>> /\ slugs_list' = <<>> /\ i' = 0
    /\ ep_queue' = {} /\ ep_queue_list' = <<>> /\ j' = 0
    /\ log' = <<F("home", 0)>>
    /\ pageItems' = <<>>
    /\ adOk' = [s \in {} |-> <<>>]
    /\ UNCHANGED <<site, store, writes, faults>>

Next ==
    \/ get
    \/ scrape_home
    \/ scrape_ongoing_pages
    \/ scrape_genrelist
    \/ scrape_jadwal
    \/ gather_slugs
    \/ scrape_anime_detail_by_slug
    \/ scrape_episode_detail_by_slug
    \/ start_run

Spec == Init /\ [][Next]_vars

\* one run of run_all
RunNext ==
    \/ get
    \/ scrape_home
    \/ scrape_ongoing_pages
    \/ scrape_genrelist
    \/ scrape_jadwal
    \/ gather_slugs
    \/ scrape_anime_detail_by_slug
    \/ scrape_episode_detail_by_slug

\* a run on the store an earlier run may have left: home.json, the one file
\* run_all reads, is absent or holds the list of an earlier run
RunInit ==
    /\ site \in Sites
    /\ \E h \in {Absent} \cup {Json(MapItems(l)) : l \in HomeChoices} :
          store = [f \in Files |-> IF f = F("home", 0) THEN h ELSE Absent]
    /\ store1 = store
    /\ writes = [f \in Files |-> 0]
    /\ run = 1
    /\ prevStatus = "none"
    /\ faults = 0
    /\ pc = "home"
    /\ status = "running"
    /\ fpc = "get" /\ attempt = 0 /\ sess = NewSession /\ html = "none"
    /\ getOut = "pending" /\ fbCalls = 0 /\ callBad = FALSE /\ delay = "none"
    /\ primReqs = 0 /\ ok2xxAt = 0 /\ fbFailedAt = 0 /\ allTransient = TRUE
    /\ page = 1 /\ all_items = <<>> /\ ongoing = <<>>
    /\ home_ret = <<>> /\ home_items = <<>> /\ slugs_list = <<>> /\ i = 0
    /\ ep_queue = {} /\ ep_queue_list = <<>> /\ j = 0
    /\ log = <<F("home", 0)>>
    /\ pageItems = <<>>
    /\ adOk = [s \in {} |-> <<>>]

\* the process keeps running: every request has a timeout, every sleep is
\* finite, so the step at hand is eventually taken
FairSpec == RunInit /\ [][RunNext]_vars /\ WF_vars(RunNext)

\* the program with a user who may stop it
InterruptNext == Next \/ interrupt

InterruptSpec == Init /\ [][InterruptNext]_vars

\* ---------------------------------------------------------------- the fetch path alone
\* how many calls of fetch one behaviour of FetchSpec makes
MaxCalls == 2

\* get, with the history of the call recorded
get_traced ==
    /\ status = "running"
    /\ fpc = "get"
    /\ \E resp \in Responses :
        /\ Healthy(resp) \/ callBad \/ faults < MaxFaults
        /\ \E r \in Attempts(resp) :
            /\ GetStep(resp, r)
            /\ primReqs' = primReqs + 1
            /\ ok2xxAt' = IF ok2xxAt = 0 /\ Is2xx(resp) THEN primReqs + 1 ELSE ok2xxAt
            /\ fbFailedAt' = IF /\ fbFailedAt = 0
                                /\ is_cloudflare_challenge(resp)
                                /\ r.tryOut = "exc" /\ r.tryCalls = 1
                             THEN primReqs + 1 ELSE fbFailedAt
            /\ allTransient' = (allTransient /\ Transient(resp))
    /\ UNCHANGED <<site, store, writes, run, store1, prevStatus, pc, status, listVars,
                   log, pageItems, adOk>>

\* a caller calls soup_from_url for another url on the same session
next_fetch ==
    /\ status = "running"
    /\ fpc = "returned"
    /\ Len(log) < MaxCalls
    /\ CallFetch(F("ongoing", Len(log)))
    /\ UNCHANGED <<site, store, writes, run, store1, prevStatus, faults, pc, status,
                   listVars, pageItems, adOk>>

FetchNext == get_traced \/ next_fetch

FetchSpec == Init /\ [][FetchNext]_vars

\* ---------------------------------------------------------------- what the claims speak of
\* how many times a work item was fetched in this run
Count(item) == Cardinality({k \in 1..Len(log) : log[k] = item})

\* the ids of the work items of one kind fetched in this run, in order
RECURSIVE IdsOf(_, _)
IdsOf(l, kind) ==
    IF l = <<>> THEN <<>>
    ELSE (IF Head(l).kind = kind THEN <<Head(l).id>> ELSE <<>>) \o IdsOf(Tail(l), kind)

PagesFetched == IdsOf(log, "ongoing")

\* the work items whose scraper has ended: all but the one being fetched or
\* extracted
Processed ==
    IF fpc = "idle" THEN Range(log) ELSE Range(SubSeq(log, 1, Len(log) - 1))

StageOf(item) ==
    IF item.kind = "anime" THEN 1 ELSE IF item.kind = "episode" THEN 2 ELSE 0

\* the anime slugs of the stage-0 items of this run: the home list as stored,
\* the ongoing pages that gave items
FoundAnime ==
    (IF store[F("home", 0)].state = "json"
     THEN SlugSet(store[F("home", 0)].data) ELSE {})
    \cup UNION { SlugSet(MapItems(site.pages[p])) :
                 p \in {q \in 1..Len(pageItems) : pageItems[q] > 0} }

RECURSIVE EpisodesInOrder(_)
\* the episode entries of the records scraped in this run, in the order the
\* anime loop met them, from its k-th item on
EpisodesInOrder(k) ==
    IF k > Len(slugs_list) THEN <<>>
    ELSE (IF slugs_list[k] \in DOMAIN adOk THEN adOk[slugs_list[k]] ELSE <<>>)
         \o EpisodesInOrder(k + 1)

\* the slugs of a list of items in the order of their first occurrence
DiscoveryOrder(items) == SlugSeq(Dedupe(items))

\* the episode slugs of the anime records scraped in this run
FoundEpisodes == UNION { SlugSet(adOk[s]) : s \in DOMAIN adOk }

\* ---------------------------------------------------------------- claims
\* C1: within one call of get the fallback _get_with_selenium is invoked at
\* most once.  The code breaks it: a fallback that raises inside the try
\* is caught by the loop's own except clause, and the next attempt (or the
\* except clause itself, on the last attempt) invokes the fallback again.
C1_FallbackAtMostOnce == fbCalls <= 1

\* C2: fetch never raises: once it has returned, its result is a body or
\* None, and it is None exactly when get raised.
C2_FetchReturnsValue ==
    fpc = "returned" =>
        /\ html \in {"page", "junk", "none"}
        /\ (html = "none") <=> (getOut = "raised")

\* a fetch whose primary attempts and whose fallback all failed has returned None
C2_Witness ==
    fpc = "returned" /\ getOut = "raised" /\ fbCalls >= 1 /\ html = "none"

\* C3: saving a record for a file that already holds a record is a no-op:
\* the content stays and nothing is written.  The code breaks it: save_json
\* opens the file with "w" whatever is there.
C3_SaveExistingIsNoOp ==
    [][\A f \in Files :
          store[f].state = "json" => (store'[f] = store[f] /\ writes'[f] = writes[f])]_vars

\* C4: a second run on an unchanged site fetches no item whose record the
\* first run persisted, and ends with the store the first run left.  The
\* code breaks it: no scraper looks at the store before it fetches.
C4_RerunFetchesNothingPersisted ==
    (run >= 2 /\ prevStatus = "all_done") =>
        /\ \A k \in 1..Len(log) : store1[log[k]].state # "json"
        /\ status = "all_done" => store = store1

C6_StagesOrdered ==
    /\ \A a \in 1..Len(log), b \in 1..Len(log) :
          a < b => StageOf(log[a]) <= StageOf(log[b])
    /\ IdsOf(log, "anime") # <<>> =>
          /\ {F("home", 0), F("genre", 0), F("jadwal", 0)} \subseteq Processed
          /\ \A p \in Range(PagesFetched) : F("ongoing", p) \in Processed
    /\ IdsOf(log, "episode") # <<>> =>
          \A s \in FoundAnime : F("anime", s) \in Processed
    /\ status = "all_done" =>
          \A s \in DOMAIN adOk : \A e \in SlugSet(adOk[s]) :
              /\ Count(F("episode", e)) = 1
              /\ \A a \in 1..Len(log), b \in 1..Len(log) :
                    (log[a] = F("anime", s) /\ log[b] = F("episode", e)) => a < b

\* a completed run where the record of anime 1 lists three episodes and the
\* episodes fetched are those three
C6_Witness ==
    /\ status = "all_done"
    /\ 1 \in DOMAIN adOk
    /\ Cardinality(SlugSet(adOk[1])) = 3
    /\ Len(IdsOf(log, "episode")) = 3
    /\ Range(IdsOf(log, "episode")) = SlugSet(adOk[1])

\* C7: a failed anime or episode item does not end the run: the run is never
\* aborted in the anime or episode stage, and in a run that completes every
\* item of both lists was attempted exactly once, the failed ones included.
C7_ItemFailureSkipped ==
    /\ status = "fatal" => pc \in {"home", "ongoing", "genre", "jadwal"}
    /\ status = "all_done" =>
          /\ \A s \in Range(slugs_list) : Count(F("anime", s)) = 1
          /\ \A e \in Range(ep_queue_list) : Count(F("episode", e)) = 1

\* a completed run in which one anime item failed and the others were scraped
C7_Witness ==
    /\ status = "all_done"
    /\ Len(slugs_list) = 3
    /\ Cardinality(DOMAIN adOk) = 2
    /\ \A s \in Range(slugs_list) : Count(F("anime", s)) = 1

\* C8: the ongoing pages are fetched as 1, 2, ... in order, never more than
\* max_pages of them, and none after a page that gave no items.
C8_Pagination ==
    /\ \A k \in 1..Len(PagesFetched) : PagesFetched[k] = k
    /\ Len(PagesFetched) <= MaxPages
    /\ \A k \in 1..Len(pageItems) :
          /\ pageItems[k] \in {-1, 0, Len(site.pages[k])}
          /\ pageItems[k] <= 0 => Len(PagesFetched) = k

\* page 1 gave nothing and pagination stopped there, though page 2 has items
C8_Witness ==
    /\ pc = "genre"
    /\ pageItems = <<0>>
    /\ site.pages[2] # <<>>
    /\ PagesFetched = <<1>>

\* the site of C9: pages 1 and 2 list items and gave them, page 3 lists
\* nothing, and scrape_ongoing_pages has ended
C9_Fixture ==
    /\ pc \notin {"home", "ongoing"}
    /\ site.pages[1] # <<>> /\ site.pages[2] # <<>> /\ site.pages[3] = <<>>
    /\ Len(pageItems) >= 2 /\ pageItems[1] > 0 /\ pageItems[2] > 0

C10_DelayBetweenFetches ==
    (fpc = "get" /\ attempt = 0 /\ Len(log) > 1) => delay # "none"

\* C11: one call of get makes at most RETRIES primary requests, and the
\* first primary request that answers 2xx is the last thing the call does:
\* the body is returned at once.  The code breaks it: only status 200 is
\* returned; any other 2xx falls into the else branch, and the loop sleeps
\* and requests again.
C11_SuccessReturnsAtOnce ==
    /\ primReqs <= RETRIES
    /\ ok2xxAt > 0 =>
          /\ fpc = "returned" /\ html \in {"page", "junk"}
          /\ primReqs = ok2xxAt /\ fbCalls = 0

\* C12: once a fallback triggered by a challenge has raised, no further
\* primary request is made and fetch returns None.  The code breaks it:
\* the exception is caught by the except clause of the loop, which goes on
\* with the next attempt.
C12_FailedFallbackEndsCall ==
    fbFailedAt > 0 =>
        /\ primReqs = fbFailedAt
        /\ fpc = "returned" => html = "none"

\* C13: a call in which every primary request ended in a transient error
\* made RETRIES requests and returned None.  The code breaks it: an
\* exception on the last attempt sends the call to the Selenium fallback,
\* whose page is returned; a 5xx on the last attempt does not.
C13_TransientExhaustedFails ==
    (fpc = "returned" /\ allTransient) => (primReqs = RETRIES /\ html = "none")

\* C14: the record of an anime or of an episode is written only when the
\* body fetched for it was the expected document.  The code breaks it: the
\* scrapers have no notion of a failed extraction; on any body they build a
\* record of empty fields and save it.
C14_NoRecordForUnparsable ==
    [][\A f \in Files :
          (f.kind \in {"anime", "episode"} /\ f = log[Len(log)]
             /\ writes'[f] > writes[f]) => html = "page"]_vars

\* C15: when a run was interrupted or aborted, every file of the store is
\* absent or holds a complete record.  The code breaks it: save_json
\* truncates the file on open and streams the record into it; an interrupt
\* in between leaves a cut file, also where a complete record was before.
C15_NoPartialFile ==
    status \in {"interrupted", "fatal"} =>
        \A f \in Files : store[f].state \in {"absent", "json"}

\* C16: the episode queue holds exactly the episode slugs of the anime
\* records scraped in this run, each such record is the episode list its
\* page showed (or empty), and every episode fetched is one of those slugs;
\* an anime whose scrape returned no record adds nothing.
C16_EpisodesFromScrapedAnime ==
    /\ ep_queue \ {0} = FoundEpisodes
    /\ Range(IdsOf(log, "episode")) \subseteq FoundEpisodes
    /\ \A s \in DOMAIN adOk :
          /\ Count(F("anime", s)) = 1
          /\ adOk[s] \in {MapItems(site.episodes[s]), <<>>}

\* a completed run in which the fetch of anime 1 failed: its three episodes
\* are on the site, yet only the episode of anime 2 was fetched
C16_Witness ==
    /\ status = "all_done"
    /\ Count(F("anime", 1)) = 1 /\ 1 \notin DOMAIN adOk
    /\ Len(site.episodes[1]) = 3
    /\ 2 \in DOMAIN adOk /\ adOk[2] # <<>>
    /\ Range(IdsOf(log, "episode")) = {1}

\* C17: every run ends, with ALL DONE or with the fatal-error handler; a
\* run that has entered the episode stage can only drain it and end with
\* ALL DONE: it leaves the lists as they are, adds no work and goes back to
\* no earlier stage.
C17_RunTerminates ==
    /\ <>(status \in {"all_done", "fatal"})
    /\ [][(status = "running" /\ pc = "episode") =>
             /\ pc' \in {"episode", "end"}
             /\ status' \in {"running", "all_done"}
             /\ slugs_list' = slugs_list
             /\ ep_queue' = ep_queue
             /\ ep_queue_list' = ep_queue_list]_vars

\* a run has drained an episode queue of three and reached ALL DONE
C17_Witness ==
    /\ status = "all_done" /\ pc = "end"
    /\ Len(ep_queue_list) = 3 /\ j = 3

\* C18 as stated: in a completed run the anime were fetched in the order
\* their slugs were first met (ongoing list, then home list), the episodes
\* in the order the anime loop first met them.
C18_DiscoveryOrder ==
    status = "all_done" =>
        /\ IdsOf(log, "anime") = DiscoveryOrder(ongoing \o home_items)
        /\ IdsOf(log, "episode") = DiscoveryOrder(EpisodesInOrder(1))

\* C18 amended: within the anime stage and within the episode stage the
\* items are fetched in ascending order of slug.
C18_SortedOrder ==
    \A kind \in {"anime", "episode"} :
        LET ids == IdsOf(log, kind) IN
        \A a \in 1..Len(ids), b \in 1..Len(ids) : a < b => ids[a] < ids[b]

\* a completed run whose episodes were met as 3, 1, 2 and fetched as 1, 2, 3
C18_Witness ==
    /\ status = "all_done"
    /\ DiscoveryOrder(EpisodesInOrder(1)) = <<3, 1, 2>>
    /\ IdsOf(log, "episode") = <<1, 2, 3>>

\* C19: every slug of the anime list was found in this run: on the home
\* list scrape_home returned or on an ongoing page.  The code breaks it:
\* run_all discards what scrape_home returns and reads home.json from the
\* disk, also when this run did not write it.
C19_SlugsFromThisRun ==
    Range(slugs_list) \subseteq SlugSet(home_ret) \cup SlugSet(ongoing)

\* C20 as stated: the scraper step that follows a failed fetch leaves the
\* whole store as it is.
C20_FailedFetchLeavesStore ==
    [][(status = "running" /\ fpc = "returned" /\ html = "none") =>
          (store' = store /\ writes' = writes)]_vars

\* C20 amended: the file of an item is written only by the step that
\* follows a fetch of that item which returned a body; after a failed fetch
\* the scraper returns no record and leaves every file as it is, but for
\* scrape_ongoing_pages, which then ends the pagination and writes
\* ongoing_all_unique.json with the items of the pages before.
C20_WriteOnlyAfterBody ==
    [][/\ \A f \in Files :
             (f.kind # "ongoing_all" /\ writes'[f] > writes[f]) =>
                 (f = log[Len(log)] /\ fpc = "returned" /\ html \in {"page", "junk"})
       /\ (status = "running" /\ fpc = "returned" /\ html = "none") =>
             /\ \A f \in Files :
                   f.kind # "ongoing_all" =>
                       (store'[f] = store[f] /\ writes'[f] = writes[f])
             /\ pc # "ongoing" => (store' = store /\ writes' = writes)
             /\ pc = "home" => home_ret' = <<>>
             /\ adOk' = adOk
             /\ pc = "ongoing" =>
                   /\ pc' = "genre" /\ ongoing' = Dedupe(all_items)
                   /\ store'[F("ongoing_all", 0)] \in
                          {Json(Dedupe(all_items)), store[F("ongoing_all", 0)]}]_vars

\* in a second run the home fetch failed: scrape_home returned nothing and
\* home.json is still the record the first run wrote, written once
C20_Witness ==
    /\ run = 2 /\ pc = "ongoing" /\ home_ret = <<>>
    /\ store1[F("home", 0)].state = "json" /\ store1[F("home", 0)].data # <<>>
    /\ store[F("home", 0)] = store1[F("home", 0)]
    /\ writes[F("home", 0)] = 1

\* the while loop of scrape_ongoing_pages has ended and the function has
\* returned: the last page fetched gave no body or no items, or was page
\* max_pages
OngoingReturned ==
    /\ Len(pageItems) > 0
    /\ (pageItems[Len(pageItems)] <= 0 \/ Len(pageItems) = MaxPages)

RECURSIVE SeenOnPages(_)
\* the items of the first k ongoing pages fetched, in page order: what the
\* pages that gave items list
SeenOnPages(k) ==
    IF k = 0 THEN <<>>
    ELSE SeenOnPages(k - 1)
         \o (IF pageItems[k] > 0 THEN MapItems(site.pages[k]) ELSE <<>>)

\* C21: the list scrape_ongoing_pages returns, which is what it saves as
\* ongoing_all_unique.json, holds no item without a slug and no slug twice,
\* holds every slug seen on a fetched page that gave items, and holds for
\* each slug the first item that carried it, the items ordered as the pages
\* list them; the file, when this run wrote it, holds that list.
C21_UniqueBySlug ==
    OngoingReturned =>
        LET seen == SeenOnPages(Len(pageItems)) IN
        /\ \A k \in 1..Len(ongoing) : ongoing[k].slug # 0
        /\ \A k, m \in 1..Len(ongoing) :
              ongoing[k].slug = ongoing[m].slug => k = m
        /\ SlugSet(ongoing) = SlugSet(seen)
        /\ \A k \in 1..Len(ongoing) :
              \E n \in 1..Len(seen) :
                 /\ seen[n] = ongoing[k]
                 /\ \A q \in 1..(n - 1) : seen[q].slug # ongoing[k].slug
        /\ \A k, m \in 1..Len(ongoing) :
              k < m =>
                 \E n, q \in 1..Len(seen) :
                    n < q /\ seen[n] = ongoing[k] /\ seen[q] = ongoing[m]
        /\ store[F("ongoing_all", 0)] # store1[F("ongoing_all", 0)] =>
               store[F("ongoing_all", 0)] = Json(ongoing)

\* three pages gave items, with an entry without slug and with slug 1 and
\* slug 2 each under two links; the list returned and saved holds the first
\* link of each
C21_Witness ==
    /\ OngoingReturned
    /\ Len(pageItems) >= 3 /\ \A k \in 1..3 : pageItems[k] > 0
    /\ ongoing = <<Item(AnimeHref(1)), Item(AnimeHref(2))>>
    /\ Len(SeenOnPages(Len(pageItems))) > Len(ongoing)
    /\ store1[F("ongoing_all", 0)] = Absent
    /\ store[F("ongoing_all", 0)] = Json(ongoing)

====
